---- MODULE Spec2Model ----
(***************************************************************************)
(* Model of src/intellisense.ts: the debounced, single-slot compiler       *)
(* process pipeline (triggerIntellisense / execIntellisense), the stderr   *)
(* parser (errMsgRegex / processIntellisenseErrors / getUri) and the       *)
(* diagnostic collection it fills.                                         *)
(*                                                                         *)
(* The runtime is single-threaded: every handler below runs to completion  *)
(* (none of the async functions of the file contains an await), so each    *)
(* handler is one action.                                                  *)
(*                                                                         *)
(* Text is modelled at line granularity: a chunk of stderr is a sequence   *)
(* of lines, a line is the five fields errMsgRegex captures, and the       *)
(* regex cursor lastIndex counts lines.  A path is a pair (abs, segs).     *)
(***************************************************************************)
EXTENDS Integers, Sequences, FiniteSets, TLC

VARIABLES
    timeout,              \* module variable `timeout`: a timer handle, 0 = undefined
    timers,               \* the runtime's table of armed, not yet fired timers
    intellisenseProcess,  \* module variable: a process id, 0 = undefined
    procs,                \* every child process spawned so far
    diagCol,              \* the vscode.DiagnosticCollection: uri -> sequence of diagnostics
    files,                \* the paths for which fs.existsSync answers true
    logged,               \* number of messages handed to logger(), per level
    channel,              \* messages handed to outputToChannel()
    nData,                \* number of stdout/stderr data events delivered so far
    sinceTrig,            \* history: time since the latest trigger event, saturating at Quiet
    lastTrig,             \* history: [id, doc] of the latest trigger event, id counts them
    burstLen,             \* history: number of trigger events of the current burst, i.e. the
                          \*   latest events that each came less than Quiet after the previous
    burstExecs,           \* history: execIntellisense invocations for events of the current burst
    lastExec,             \* history: the latest invocation of execIntellisense, or NoExec
    closedSince,          \* history: documents closed and not triggered again since
    parse,                \* parser specification: [output, done], the chunk to deliver and
                          \*   whether it has been delivered; NoParse elsewhere
    config,               \* the setting compilation.additionalCommandLineArguments, a string
    lastIndex             \* the match cursor of the global regex errMsgRegex

vars == <<timeout, timers, intellisenseProcess, procs, diagCol, files, logged,
          channel, nData, sinceTrig, lastTrig, burstLen, burstExecs, lastExec,
          closedSince, parse, config, lastIndex>>

----------------------------------------------------------------------------
(* Bounds of the model *)

MaxTriggers == 3   \* trigger events in one behaviour
MaxData     == 2   \* stdout/stderr data events in one behaviour
MaxLen      == 3   \* lines in one stderr chunk of the parser specification
MaxCfg      == 3   \* characters of the argument setting in the argument specification

(* Program constants *)

Quiet == 500       \* the delay handed to setTimeout

Step == Quiet \div 2   \* granularity of the passage of time

None == 0

Min(S) == CHOOSE x \in S : \A y \in S : x <= y

----------------------------------------------------------------------------
(* Paths: path.isAbsolute, path.dirname, path.join *)

Path(a, s) == [abs |-> a, segs |-> s]

Dash == Path(FALSE, <<"-">>)

IsAbsolute(p) == p.abs

Dirname(p) == Path(p.abs, SubSeq(p.segs, 1, Len(p.segs) - 1))

Join(dir, p) == Path(dir.abs, dir.segs \o p.segs)

DocA == Path(TRUE, <<"a", "x.ly">>)
DocB == Path(TRUE, <<"b", "y.ly">>)

Docs == {DocA, DocB}

\* no document (vscode.window.activeTextEditor undefined)
NoDoc == Path(FALSE, <<>>)

AbsInc == Path(TRUE, <<"inc.ly">>)
RelInc == Path(FALSE, <<"inc.ly">>)

RawPaths == {Dash, AbsInc, RelInc}

\* the filesystem entries that may or may not exist
FsPaths == {AbsInc, Join(Dirname(DocA), RelInc), Join(Dirname(DocA), Dash)}

----------------------------------------------------------------------------
(* The wire format and errMsgRegex *)

Line(p, l, c, k, m) == [path |-> p, line |-> l, col |-> c, kind |-> k, msg |-> m]

\* line, column and keyword of the lines of the model
Tails == {<<12, 5, "error">>, <<1, 1, "warning">>, <<1, 1, "note">>}

Lines == {Line(p, t[1], t[2], t[3], "bad note") : p \in RawPaths, t \in Tails}

\* errMsgRegex matches a line iff its keyword is one of the alternation (error|warning)
Matches(l) == l.kind \in {"error", "warning"}

\* an exec that leaves the cursor where it is when nothing matches
RegexExecSticky(output, cursor) ==
    LET cands == {i \in (cursor + 1)..Len(output) : Matches(output[i])}
    IN  IF cands = {}
        THEN [match |-> FALSE, lastIndex |-> cursor, groups |-> <<>>]
        ELSE [match |-> TRUE, lastIndex |-> Min(cands), groups |-> output[Min(cands)]]

\* errMsgRegex.exec(output) of a global regex whose cursor is lastIndex
RegexExec(output, cursor) ==
    LET cands == {i \in (cursor + 1)..Len(output) : Matches(output[i])}
    IN  IF cands = {}
        THEN [match |-> FALSE, lastIndex |-> 0, groups |-> <<>>]
        ELSE [match |-> TRUE, lastIndex |-> Min(cands), groups |-> output[Min(cands)]]

Error   == 0
Warning == 1

getDiagSeverity(s) ==
    CASE s = "error"   -> Error
      [] s = "warning" -> Warning
      [] OTHER         -> Error

----------------------------------------------------------------------------
(* The diagnostic collection *)

EmptyCol == <<>>

DiagColGet(col, uri) == IF uri \in DOMAIN col THEN col[uri] ELSE <<>>

DiagColSet(col, uri, diags) ==
    [u \in (DOMAIN col) \cup {uri} |-> IF u = uri THEN diags ELSE col[u]]

DiagColDelete(col, uri) == [u \in (DOMAIN col) \ {uri} |-> col[u]]

DiagColClearNoop(col) == col

DiagColClear(col) == EmptyCol

\* an addToDiagCol that puts the diagnostic in front of the stored ones
addToDiagColFront(diag, col) ==
    LET diagnostic == [severity |-> diag.severity, range |-> diag.range,
                       message |-> diag.errMsg, run |-> diag.run]
        currentDiags == DiagColGet(col, diag.uri)
        newDiags == <<diagnostic>> \o currentDiags
    IN  DiagColSet(col, diag.uri, newDiags)

addToDiagCol(diag, col) ==
    LET diagnostic == [severity |-> diag.severity, range |-> diag.range,
                       message |-> diag.errMsg, run |-> diag.run]
        currentDiags == DiagColGet(col, diag.uri)
        newDiags == Append(currentDiags, diagnostic)
    IN  DiagColSet(col, diag.uri, newDiags)

\* a range that starts at the end column
RangePoint(sl, sc, el, ec) == [startLine |-> sl, startCol |-> ec, endLine |-> el, endCol |-> ec]

Range(sl, sc, el, ec) == [startLine |-> sl, startCol |-> sc, endLine |-> el, endCol |-> ec]

----------------------------------------------------------------------------
(* processIntellisenseErrors and its inner getUri *)

\* getUri with the second and the third branch exchanged
getUriJoinFirst(gotPath, doc, fs) ==
    IF gotPath = Dash
    THEN [ok |-> TRUE, uri |-> doc]
    ELSE IF Join(Dirname(doc), gotPath) \in fs
    THEN [ok |-> TRUE, uri |-> Join(Dirname(doc), gotPath)]
    ELSE IF IsAbsolute(gotPath) /\ gotPath \in fs
    THEN [ok |-> TRUE, uri |-> gotPath]
    ELSE [ok |-> FALSE, uri |-> gotPath]

getUri(gotPath, doc, fs) ==
    IF gotPath = Dash
    THEN [ok |-> TRUE, uri |-> doc]
    ELSE IF IsAbsolute(gotPath) /\ gotPath \in fs
    THEN [ok |-> TRUE, uri |-> gotPath]
    ELSE IF Join(Dirname(doc), gotPath) \in fs
    THEN [ok |-> TRUE, uri |-> Join(Dirname(doc), gotPath)]
    ELSE [ok |-> FALSE, uri |-> gotPath]

\* where the loop continues after the catch block handled a record's error
AfterCatchAbort(output, cursor) == Len(output)

AfterCatch(output, cursor) == cursor

\* the while loop; st = [col, channel, lastIndex], run tags the diagnostics with
\* the process
RECURSIVE ProcessLoop(_, _, _, _, _, _)
ProcessLoop(output, cursor, doc, fs, run, st) ==
    LET m == RegexExec(output, cursor)
    IN  IF ~m.match
        THEN [st EXCEPT !.lastIndex = m.lastIndex]
        ELSE LET g == m.groups
                 r == getUri(g.path, doc, fs)
                 lineNo == g.line - 1
                 charNo == g.col - 1
                 diag == [uri |-> r.uri, severity |-> getDiagSeverity(g.kind),
                          range |-> Range(lineNo, 0, lineNo, charNo),
                          errMsg |-> g.msg, run |-> run]
             IN  IF r.ok
                 THEN ProcessLoop(output, m.lastIndex, doc, fs, run,
                                  [st EXCEPT !.col = addToDiagCol(diag, st.col)])
                 ELSE ProcessLoop(output, AfterCatch(output, m.lastIndex), doc, fs, run,
                                  [st EXCEPT !.channel = Append(st.channel,
                                       [kind |-> "record", path |-> g.path])])

\* cursor is the value of errMsgRegex.lastIndex when the call starts
processIntellisenseErrors(output, doc, col, chan, fs, run, cursor) ==
    ProcessLoop(output, cursor, doc, fs, run,
                [col |-> col, channel |-> chan, lastIndex |-> cursor])

----------------------------------------------------------------------------
(* Timers: setTimeout / clearTimeout on the runtime's timer table *)

ClearTimeoutNoop(tbl, h) == tbl

ClearTimeout(tbl, h) == {t \in tbl : t.id # h}

SetTimeoutNow(tbl, id, doc, delay) ==
    tbl \cup {[id |-> id, doc |-> doc, remaining |-> 0]}

SetTimeout(tbl, id, doc, delay) ==
    tbl \cup {[id |-> id, doc |-> doc, remaining |-> delay]}

ElapseStuck(t, d) == t

\* a timer after d milliseconds have passed
Elapse(t, d) == [t EXCEPT !.remaining = IF t.remaining > d THEN t.remaining - d ELSE 0]

\* triggerIntellisense(doc): the new values of <<timers, timeout>>
triggerIntellisense(doc, tbl, h, id) ==
    LET cancelled == IF h # None THEN ClearTimeout(tbl, h) ELSE tbl
    IN  [timers |-> SetTimeout(cancelled, id, doc, Quiet), timeout |-> id]

----------------------------------------------------------------------------
(* logger(msg, level, ...): the text of a message is not modelled *)

LogLevels == {"info", "error"}

NoLog == [l \in LogLevels |-> 0]

Log(lg, level) == [lg EXCEPT ![level] = @ + 1]

----------------------------------------------------------------------------
(* The argument vector: a string is a sequence of characters, a token a string *)

CfgAtoms == {" ", "a", "-"}

IsSpace(c) == c = " "

RECURSIVE Trim(_)
Trim(str) ==
    IF str = <<>> THEN str
    ELSE IF IsSpace(str[1]) THEN Trim(Tail(str))
    ELSE IF IsSpace(str[Len(str)]) THEN Trim(SubSeq(str, 1, Len(str) - 1))
    ELSE str

\* str.split(/\s+/): the pieces between the maximal runs of whitespace
RECURSIVE SplitWs(_)
SplitWs(str) ==
    LET spaces == {i \in 1..Len(str) : IsSpace(str[i])}
    IN  IF spaces = {} THEN <<str>>
        ELSE LET i == Min(spaces)
                 rest == {j \in i..Len(str) : ~IsSpace(str[j])}
                 j == IF rest = {} THEN Len(str) + 1 ELSE Min(rest)
             IN  <<SubSeq(str, 1, i - 1)>> \o SplitWs(SubSeq(str, j, Len(str)))

LogLevelFlag == <<"--loglevel=WARNING">>
BackendFlag == <<"--define-default=backend=null">>
StdinFlag == <<"-">>

intellisenseArgs == <<LogLevelFlag, BackendFlag, StdinFlag>>

ComposeArgsFixedFirst(additionalArgs, fixed) == fixed \o additionalArgs

\* additionalArgs.concat(intellisenseArgs)
ComposeArgs(additionalArgs, fixed) == additionalArgs \o fixed

\* lines 141-151: the argument vector for the setting cfg
Args(cfg) == ComposeArgs(SplitWs(Trim(cfg)), intellisenseArgs)

----------------------------------------------------------------------------
(* Child processes: cp.spawn, kill, and the slot intellisenseProcess *)

Proc(doc, args) == [doc |-> doc, args |-> args, alive |-> TRUE, killed |-> FALSE]

\* a process whose 'close' event has been delivered: nothing of it matters any more
Exited == [doc |-> NoDoc, args |-> <<>>, alive |-> FALSE, killed |-> FALSE]

Kill(ps, h) == [ps EXCEPT ![h].killed = TRUE]

\* lines 153-156 without the reset of the slot
KillPreviousKeepSlot(ps, h) ==
    IF h # None THEN [procs |-> Kill(ps, h), slot |-> h, trace |-> <<"kill">>]
    ELSE [procs |-> ps, slot |-> h, trace |-> <<>>]

\* lines 153-156: if (intellisenseProcess) { kill(); intellisenseProcess = undefined; }
KillPrevious(ps, h) ==
    IF h # None THEN [procs |-> Kill(ps, h), slot |-> None, trace |-> <<"kill">>]
    ELSE [procs |-> ps, slot |-> h, trace |-> <<>>]

\* a store that keeps the handle the slot held when the run started
StoreHandleKeepHeld(h, new) == IF h # None THEN h ELSE new

\* line 158: intellisenseProcess = cp.spawn(...), h is the slot when the run started
StoreHandle(h, new) == new

\* execIntellisense(doc); spawnOk = FALSE when cp.spawn throws.
\* trace lists the effects in the order the code performs them.
execIntellisense(doc, spawnOk, col, ps, h, lg, chan, cfg) ==
    LET cleared == DiagColClear(col)
        args == Args(cfg)
        k == KillPrevious(ps, h)
    IN  IF spawnOk
        THEN [diagCol |-> cleared, procs |-> Append(k.procs, Proc(doc, args)),
              slot |-> StoreHandle(h, Len(k.procs) + 1), logged |-> lg, channel |-> chan,
              trace |-> <<"clear">> \o k.trace \o <<"spawn">>]
        ELSE [diagCol |-> cleared, procs |-> k.procs, slot |-> k.slot,
              logged |-> Log(lg, "error"),
              channel |-> Append(chan, [kind |-> "failed", path |-> NoDoc]),
              trace |-> <<"clear">> \o k.trace \o <<"throw">>]

----------------------------------------------------------------------------
(* The specification of the subsystem *)

NoParse == [output |-> <<>>, done |-> FALSE]

\* the argument setting of this specification: `a -`
UserArgs == <<"a", " ", "-">>

\* the stderr chunk the processes of this specification emit: a warning in an
\* included file and an error in the document itself
ChunkTwo == <<Line(AbsInc, 1, 1, "warning", "bad note"), Line(Dash, 12, 5, "error", "bad note")>>

SysChunks == {ChunkTwo}

Trig(id, doc) == [id |-> id, doc |-> doc]

\* ev: the trigger event whose timer fired; proc: the process spawned (None when
\* cp.spawn threw); prev: the slot at entry; dirty: the collection was not empty at entry
NoExec == [ev |-> 0, doc |-> NoDoc, ok |-> FALSE, trace |-> <<>>, proc |-> None,
           prev |-> None, dirty |-> FALSE]

\* subscribeIntellisense: the state after activation, editor = NoDoc when no
\* lilypond document is active
Init ==
    \E editor \in Docs \cup {NoDoc} :
        LET t == triggerIntellisense(editor, {}, None, 1)
        IN  /\ timers = IF editor = NoDoc THEN {} ELSE t.timers
            /\ timeout = IF editor = NoDoc THEN None ELSE t.timeout
            /\ lastTrig = IF editor = NoDoc THEN Trig(0, NoDoc) ELSE Trig(1, editor)
            /\ burstLen = IF editor = NoDoc THEN 0 ELSE 1
            /\ burstExecs = 0
            /\ sinceTrig = IF editor = NoDoc THEN Quiet ELSE 0
            /\ intellisenseProcess = None
            /\ procs = <<>>
            /\ diagCol = EmptyCol
            /\ files = {AbsInc}
            /\ logged = NoLog
            /\ channel = <<>>
            /\ nData = 0
            /\ lastExec = NoExec
            /\ closedSince = {}
            /\ parse = NoParse
            /\ config = UserArgs
            /\ lastIndex = 0

\* the body shared by the two handlers that call triggerIntellisense
Trigger(doc) ==
    /\ lastTrig.id < MaxTriggers
    /\ LET t == triggerIntellisense(doc, timers, timeout, lastTrig.id + 1)
       IN  /\ timers' = t.timers
           /\ timeout' = t.timeout
    /\ lastTrig' = Trig(lastTrig.id + 1, doc)
    /\ burstLen' = IF sinceTrig < Quiet THEN burstLen + 1 ELSE 1
    /\ burstExecs' = IF sinceTrig < Quiet THEN burstExecs ELSE 0
    /\ sinceTrig' = 0
    /\ closedSince' = closedSince \ {doc}
    /\ UNCHANGED <<intellisenseProcess, procs, diagCol, files, logged, channel,
                   nData, lastExec, parse, config, lastIndex>>

OnDidChangeActiveTextEditor == \E doc \in Docs : Trigger(doc)

OnDidChangeTextDocument == \E doc \in Docs : Trigger(doc)

\* onDidCloseTextDocument
OnDidCloseTextDocument ==
    \E doc \in Docs :
        /\ doc \notin closedSince
        /\ diagCol' = DiagColDelete(diagCol, doc)
        /\ closedSince' = closedSince \cup {doc}
        /\ UNCHANGED <<timeout, timers, intellisenseProcess, procs, files, logged,
                       channel, nData, sinceTrig, lastTrig, burstLen, burstExecs, lastExec, parse, config, lastIndex>>

\* Step milliseconds pass
Tick ==
    /\ \/ sinceTrig < Quiet
       \/ \E t \in timers : t.remaining > 0
    /\ timers' = {Elapse(t, Step) : t \in timers}
    /\ sinceTrig' = IF sinceTrig + Step > Quiet THEN Quiet ELSE sinceTrig + Step
    /\ UNCHANGED <<timeout, intellisenseProcess, procs, diagCol, files, logged,
                   channel, nData, lastTrig, burstLen, burstExecs, lastExec, closedSince, parse, config, lastIndex>>

\* an armed timer whose delay has passed fires: its callback runs execIntellisense
TimerFire ==
    \E t \in timers, spawnOk \in BOOLEAN :
        /\ t.remaining = 0
        /\ timers' = timers \ {t}
        /\ LET e == execIntellisense(t.doc, spawnOk, diagCol, procs,
                                     intellisenseProcess, logged, channel, config)
           IN  /\ diagCol' = e.diagCol
               /\ procs' = e.procs
               /\ intellisenseProcess' = e.slot
               /\ logged' = e.logged
               /\ channel' = e.channel
               /\ lastExec' = [ev |-> t.id, doc |-> t.doc, ok |-> spawnOk, trace |-> e.trace,
                               proc |-> IF spawnOk THEN e.slot ELSE None,
                               prev |-> intellisenseProcess, dirty |-> diagCol # EmptyCol]
        /\ burstExecs' = IF t.id > lastTrig.id - burstLen THEN burstExecs + 1 ELSE burstExecs
        /\ UNCHANGED <<timeout, files, nData, sinceTrig, lastTrig, burstLen, closedSince,
                       parse, config, lastIndex>>

\* a stdout handler that also hands its chunk to the parser
StdoutDataParsed ==
    \E p \in DOMAIN procs, output \in SysChunks :
        /\ procs[p].alive
        /\ nData < MaxData
        /\ nData' = nData + 1
        /\ logged' = Log(logged, "info")
        /\ diagCol' = processIntellisenseErrors(output, procs[p].doc, diagCol, channel,
                                                files, p, lastIndex).col
        /\ UNCHANGED <<timeout, timers, intellisenseProcess, procs, files, channel,
                       sinceTrig, lastTrig, burstLen, burstExecs, lastExec, closedSince,
                       parse, config, lastIndex>>

\* stdout 'data' handler of process p
StdoutData ==
    \E p \in DOMAIN procs :
        /\ procs[p].alive
        /\ nData < MaxData
        /\ nData' = nData + 1
        /\ logged' = Log(logged, "info")
        /\ UNCHANGED <<timeout, timers, intellisenseProcess, procs, diagCol, files,
                       channel, sinceTrig, lastTrig, burstLen, burstExecs, lastExec, closedSince, parse, config, lastIndex>>

\* a stderr handler that reads the document of the latest run
StderrHandlerLatestDoc(p, output) ==
    /\ procs[p].alive
    /\ nData < MaxData
    /\ nData' = nData + 1
    /\ LET r == processIntellisenseErrors(output, lastExec.doc, diagCol, channel, files, p,
                                          lastIndex)
       IN  /\ diagCol' = r.col
           /\ channel' = r.channel
           /\ lastIndex' = r.lastIndex
    /\ UNCHANGED <<timeout, timers, intellisenseProcess, procs, files, logged, config,
                   sinceTrig, lastTrig, burstLen, burstExecs, lastExec, closedSince>>

\* stderr 'data' handler of process p: doc is the one the run captured
StderrHandler(p, output) ==
    /\ procs[p].alive
    /\ nData < MaxData
    /\ nData' = nData + 1
    /\ LET r == processIntellisenseErrors(output, procs[p].doc, diagCol, channel, files, p,
                                          lastIndex)
       IN  /\ diagCol' = r.col
           /\ channel' = r.channel
           /\ lastIndex' = r.lastIndex
    /\ UNCHANGED <<timeout, timers, intellisenseProcess, procs, files, logged, config,
                   sinceTrig, lastTrig, burstLen, burstExecs, lastExec, closedSince>>

StderrData ==
    \E p \in DOMAIN procs, output \in SysChunks :
        /\ StderrHandler(p, output)
        /\ UNCHANGED parse

\* a close handler that leaves the slot as it is
OnCloseKeep(h, p) == h

\* the slot after the close handler of process p has run: intellisenseProcess = undefined
OnClose(h, p) == None

\* 'close' handler of process p
ProcClose ==
    \E p \in DOMAIN procs, code \in {0, 1} :
        /\ procs[p].alive
        /\ procs' = [procs EXCEPT ![p] = Exited]
        /\ logged' = Log(logged, "info")
        /\ intellisenseProcess' = OnClose(intellisenseProcess, p)
        /\ UNCHANGED <<timeout, timers, diagCol, files, channel, nData, sinceTrig,
                       lastTrig, burstLen, burstExecs, lastExec, closedSince, parse, config, lastIndex>>

Next ==
    \/ OnDidChangeActiveTextEditor
    \/ OnDidChangeTextDocument
    \/ OnDidCloseTextDocument
    \/ Tick
    \/ TimerFire
    \/ StdoutData
    \/ StderrData
    \/ ProcClose

Spec == Init /\ [][Next]_vars

\* The debounce scheduler under fairness.  The stream handlers (StdoutData,
\* StderrData) neither read nor write timeout or the timer table and cannot
\* disable Tick or TimerFire; they are left out of this specification.
LiveNext ==
    \/ OnDidChangeActiveTextEditor
    \/ OnDidChangeTextDocument
    \/ OnDidCloseTextDocument
    \/ Tick
    \/ TimerFire
    \/ ProcClose

\* the event loop runs a due timer callback, and time passes
LiveSpec == Init /\ [][LiveNext]_vars /\ WF_vars(Tick) /\ WF_vars(TimerFire)

----------------------------------------------------------------------------
(* The specification of the parser: one stderr chunk, drawn from every chunk of
   at most MaxLen lines, reaches the process of a first run, for every document
   and every state of the filesystem *)

Chunks == UNION {[1..n -> Lines] : n \in 0..MaxLen}

ParseInit ==
    \E doc \in Docs :
        /\ timers = {}
        /\ timeout = 1
        /\ lastTrig = Trig(1, doc)
        /\ burstLen = 1
        /\ burstExecs = 1
        /\ sinceTrig = Quiet
        /\ intellisenseProcess = 1
        /\ procs = <<Proc(doc, Args(UserArgs))>>
        /\ diagCol = EmptyCol
        /\ files \in SUBSET FsPaths
        /\ logged = NoLog
        /\ channel = <<>>
        /\ nData = 0
        /\ lastExec = [ev |-> 1, doc |-> doc, ok |-> TRUE, trace |-> <<"clear", "spawn">>,
                       proc |-> 1, prev |-> None, dirty |-> FALSE]
        /\ closedSince = {}
        /\ parse \in [output : Chunks, done : {FALSE}]
        /\ config = UserArgs
        /\ lastIndex = 0

ParseChunk ==
    \E p \in DOMAIN procs :
        /\ ~parse.done
        /\ StderrHandler(p, parse.output)
        /\ parse' = [parse EXCEPT !.done = TRUE]

ParseNext == ParseChunk

ParseSpec == ParseInit /\ [][ParseNext]_vars

----------------------------------------------------------------------------
(* The specification of the argument vector: the setting is drawn from every
   string of at most MaxCfg characters, and the run that the initial trigger
   arms fires after the quiet period *)

Configs == UNION {[1..n -> CfgAtoms] : n \in 0..MaxCfg}

ArgsInit ==
    \E doc \in Docs :
        LET t == triggerIntellisense(doc, {}, None, 1)
        IN  /\ timers = t.timers
            /\ timeout = t.timeout
            /\ lastTrig = Trig(1, doc)
            /\ burstLen = 1
            /\ burstExecs = 0
            /\ sinceTrig = 0
            /\ intellisenseProcess = None
            /\ procs = <<>>
            /\ diagCol = EmptyCol
            /\ files = {AbsInc}
            /\ logged = NoLog
            /\ channel = <<>>
            /\ nData = 0
            /\ lastExec = NoExec
            /\ closedSince = {}
            /\ parse = NoParse
            /\ config \in Configs
            /\ lastIndex = 0

ArgsNext ==
    \/ Tick
    \/ TimerFire

ArgsSpec == ArgsInit /\ [][ArgsNext]_vars

----------------------------------------------------------------------------
(* Properties *)

\* the processes that have been spawned, have not been sent a kill and have not exited
Running == {p \in DOMAIN procs : procs[p].alive /\ ~procs[p].killed}

\* the diagnostics of the collection, as <<uri, index>> pairs
Entries == {e \in (DOMAIN diagCol) \X (1..(MaxLen + 2 * MaxData)) : e[2] <= Len(diagCol[e[1]])}

\* a step that is an invocation of execIntellisense
ExecStep == lastExec' # lastExec

\* a step that is a call of triggerIntellisense
TriggerStep == lastTrig' # lastTrig

\* C1: at most one compiler process spawned by execIntellisense is running
\* (spawned, not killed, not exited) in every reachable state: a run that starts
\* while an earlier process has not exited kills it before it spawns.
C1_AtMostOneProcess == Cardinality(Running) <= 1

\* C2: once a later run has started, every diagnostic of the collection was parsed
\* from the stderr of the process of the latest run, never from an earlier run's.
C2_Supersession == \A e \in Entries : diagCol[e[1]][e[2]].run = lastExec.proc

\* C3: a sequence of trigger events that each come less than Quiet after the
\* previous one (a burst) leads to at most one invocation of execIntellisense,
\* that invocation is for the latest event of the burst and gets its document,
\* and until it happened the only armed timer is the one of the latest event.
C3_DebounceCollapsing ==
    /\ burstExecs <= 1
    /\ burstExecs = 1 => /\ lastExec.ev = lastTrig.id
                         /\ lastExec.doc = lastTrig.doc
                         /\ timers = {}
    /\ (burstExecs = 0 /\ burstLen > 0) => \E t \in timers : t.id = lastTrig.id /\ t.doc = lastTrig.doc
    /\ \A t \in timers : t.id = lastTrig.id

C3_Witness ==
    /\ burstLen >= 2
    /\ burstExecs = 1
    /\ lastExec.ev = lastTrig.id
    /\ lastExec.doc = DocB

\* C4: every invocation of execIntellisense leaves the collection empty, and the
\* clear is the first of its effects, before the kill and the spawn, also when
\* cp.spawn throws.
C4_ClearBeforeFill ==
    [][ExecStep => /\ diagCol' = EmptyCol
                   /\ lastExec'.trace[1] = "clear"
                   /\ \A i \in 2..Len(lastExec'.trace) : lastExec'.trace[i] # "clear"]_vars

C4_Witness ==
    /\ lastExec.dirty
    /\ ~lastExec.ok
    /\ diagCol = EmptyCol
    /\ lastExec.trace = <<"clear", "kill", "throw">>

\* C5: a document that was closed and has not been triggered again has no
\* diagnostics in the collection.
C5_ClosedStaysClear == \A doc \in closedSince : doc \notin DOMAIN diagCol

\* C6: at most one timer is armed in every reachable state, and it is the one
\* the module variable timeout refers to.
C6_AtMostOneTimer ==
    /\ Cardinality(timers) <= 1
    /\ \A t \in timers : t.id = timeout

C6_Witness ==
    /\ burstLen >= 2
    /\ burstExecs = 0
    /\ Cardinality(timers) = 1

\* C7: under fair timer firing every trigger event is either followed by a later
\* trigger event or eventually invoked, once, with its document.
C7_DebounceLiveness ==
    \A k \in 1..MaxTriggers :
        (lastTrig.id = k) ~> \/ lastTrig.id > k
                             \/ /\ lastExec.ev = k
                                /\ lastExec.doc = lastTrig.doc
                                /\ burstExecs = 1
                                /\ timers = {}

C7_Witness ==
    /\ lastTrig.id = MaxTriggers
    /\ lastExec.ev = MaxTriggers
    /\ timers = {}

----------------------------------------------------------------------------
(* Properties of the parser specification *)

ParseDoc == procs[1].doc

Resolved(l) == getUri(l.path, ParseDoc, files)

Matching == SelectSeq(parse.output, Matches)

ResolvedTo(uri) == SelectSeq(Matching, LAMBDA l : Resolved(l).ok /\ Resolved(l).uri = uri)

Dropped == SelectSeq(Matching, LAMBDA l : ~Resolved(l).ok)

Uris == Docs \cup RawPaths \cup {Join(Dirname(d), q) : d \in Docs, q \in RawPaths}

\* C9: of the matching lines of one chunk, those whose location does not resolve
\* are logged and dropped, and all the others are added to the collection, under
\* their uri, in the order of the chunk.
C9_RecordIsolation ==
    parse.done =>
        /\ \A uri \in Uris :
              LET got == DiagColGet(diagCol, uri)
                  exp == ResolvedTo(uri)
              IN  /\ Len(got) = Len(exp)
                  /\ \A i \in 1..Len(exp) :
                        /\ got[i].range.startLine = exp[i].line - 1
                        /\ got[i].range.endCol = exp[i].col - 1
                        /\ got[i].message = exp[i].msg
                        /\ (got[i].severity = Warning) <=> (exp[i].kind = "warning")
        /\ DOMAIN diagCol \subseteq Uris
        /\ channel = [i \in 1..Len(Dropped) |-> [kind |-> "record", path |-> Dropped[i].path]]

C9_Witness ==
    /\ parse.done
    /\ Len(Matching) = 3
    /\ Resolved(Matching[1]).ok
    /\ ~Resolved(Matching[2]).ok
    /\ Resolved(Matching[3]).ok
    /\ Matching[1] # Matching[3]
    /\ Resolved(Matching[1]).uri = Resolved(Matching[3]).uri
    /\ Len(DiagColGet(diagCol, Resolved(Matching[1]).uri)) = 2
    /\ Len(channel) = 1

\* the matching lines whose raw path is absolute and does not exist
AbsMissing == SelectSeq(Matching, LAMBDA l : IsAbsolute(l.path) /\ l.path \notin files)

\* C10: every matching line whose raw path is absolute and does not exist is
\* dropped with a logged resolution error, for every document and filesystem:
\* no diagnostic is added for it.
C10_AbsoluteMissingFails ==
    parse.done =>
        /\ Len(Dropped) >= Len(AbsMissing)
        /\ Cardinality(Entries) <= Len(Matching) - Len(AbsMissing)

\* the rule of the precedence list that applies to a raw path: 1 the sentinel, 2 an
\* existing absolute path, 3 an existing join with the document's directory, 4 none
Rule(rawPath) ==
    CASE rawPath = Dash -> 1
      [] rawPath # Dash /\ IsAbsolute(rawPath) /\ rawPath \in files -> 2
      [] rawPath # Dash /\ ~(IsAbsolute(rawPath) /\ rawPath \in files)
            /\ Join(Dirname(ParseDoc), rawPath) \in files -> 3
      [] OTHER -> 4

\* the file identity each rule gives
RuleUri(rawPath) ==
    CASE Rule(rawPath) = 1 -> ParseDoc
      [] Rule(rawPath) = 2 -> rawPath
      [] Rule(rawPath) = 3 -> Join(Dirname(ParseDoc), rawPath)
      [] OTHER -> NoDoc

\* the matching lines the precedence list sends to uri
RuledTo(uri) == SelectSeq(Matching, LAMBDA l : Rule(l.path) # 4 /\ RuleUri(l.path) = uri)

\* C11: a diagnostic lands under the document for the raw path `-` whatever the
\* filesystem holds, else under the raw path when it is absolute and exists, else
\* under the join of the document's directory and the raw path when that exists,
\* and else resolution fails; the first rule that applies wins.
C11_ResolverPrecedence ==
    parse.done =>
        /\ \A uri \in Uris : Len(DiagColGet(diagCol, uri)) = Len(RuledTo(uri))
        /\ DOMAIN diagCol \subseteq Uris
        /\ Len(channel) = Len(SelectSeq(Matching, LAMBDA l : Rule(l.path) = 4))
        /\ \A i \in 1..Len(channel) : Rule(channel[i].path) = 4

C11_Witness ==
    /\ parse.done
    /\ ParseDoc = DocA
    /\ files = FsPaths
    /\ Len(Matching) = 3
    /\ Matching[1].path = Dash
    /\ Matching[2].path = AbsInc
    /\ Matching[3].path = RelInc
    /\ Len(DiagColGet(diagCol, DocA)) = 1
    /\ Len(DiagColGet(diagCol, AbsInc)) = 1
    /\ Len(DiagColGet(diagCol, Join(Dirname(DocA), RelInc))) = 1

\* the lines of the chunk, whatever their keyword, whose location resolves to uri
AnyKindTo(uri) == SelectSeq(parse.output, LAMBDA l : Resolved(l).ok /\ Resolved(l).uri = uri)

\* C12: a line of the wire format whose keyword is neither error nor warning
\* still yields a diagnostic, of severity Error: every line whose location
\* resolves has its diagnostic, and those of such lines are errors.
C12_SeverityFallback ==
    parse.done =>
        \A uri \in Uris :
            LET got == DiagColGet(diagCol, uri)
                exp == AnyKindTo(uri)
            IN  /\ Len(got) = Len(exp)
                /\ \A i \in 1..Len(exp) :
                      exp[i].kind \notin {"error", "warning"} => got[i].severity = Error

\* C13: the diagnostic of a matched line with 1-based line L and column C has the
\* range (L - 1, 0, L - 1, C - 1), severity Error for the keyword error and
\* Warning for warning, and the message of the line.
C13_PositionMapping ==
    parse.done =>
        \A uri \in Uris :
            LET got == DiagColGet(diagCol, uri)
                exp == ResolvedTo(uri)
            IN  \A i \in 1..Len(got) :
                  /\ i <= Len(exp)
                  /\ got[i].range = [startLine |-> exp[i].line - 1, startCol |-> 0,
                                     endLine |-> exp[i].line - 1, endCol |-> exp[i].col - 1]
                  /\ exp[i].kind = "error" => got[i].severity = Error
                  /\ exp[i].kind = "warning" => got[i].severity = Warning
                  /\ got[i].message = exp[i].msg

C13_Witness ==
    /\ parse.done
    /\ Len(DiagColGet(diagCol, ParseDoc)) = 2
    /\ diagCol[ParseDoc][1].range = [startLine |-> 11, startCol |-> 0, endLine |-> 11, endCol |-> 4]
    /\ diagCol[ParseDoc][1].severity = Error
    /\ diagCol[ParseDoc][1].message = "bad note"
    /\ diagCol[ParseDoc][2].range = [startLine |-> 0, startCol |-> 0, endLine |-> 0, endCol |-> 0]
    /\ diagCol[ParseDoc][2].severity = Warning

----------------------------------------------------------------------------
(* Argument composition *)

\* the characters of str that are not whitespace
NoSpaces(str) == SelectSeq(str, LAMBDA c : ~IsSpace(c))

\* the concatenation of the tokens
RECURSIVE Flatten(_)
Flatten(tokens) == IF tokens = <<>> THEN <<>> ELSE Head(tokens) \o Flatten(Tail(tokens))

\* the number of maximal runs of characters of str that are not whitespace
Runs(str) == Cardinality({i \in 1..Len(str) :
                 ~IsSpace(str[i]) /\ (i = 1 \/ IsSpace(str[i - 1]))})

\* the tokens of the vector that precede its last three elements
UserTokens(args) == SubSeq(args, 1, Len(args) - 3)

\* C14: for every argument setting, the vector of a spawned process ends with
\* --loglevel=WARNING, --define-default=backend=null, - in that order, and what
\* precedes them is the setting's tokens: free of whitespace, in the order of
\* the setting, one per run of characters (a setting without any character
\* gives the single empty token of split)
C14_ArgumentComposition ==
    \A p \in DOMAIN procs :
        procs[p].alive =>
            LET args == procs[p].args
                n == Len(args)
                user == UserTokens(args)
            IN  /\ n >= 3
                /\ args[n - 2] = LogLevelFlag
                /\ args[n - 1] = BackendFlag
                /\ args[n] = StdinFlag
                /\ \A i \in 1..Len(user) : NoSpaces(user[i]) = user[i]
                /\ Flatten(user) = NoSpaces(config)
                /\ Len(user) = IF Runs(config) = 0 THEN 1 ELSE Runs(config)
                /\ Runs(config) > 0 => \A i \in 1..Len(user) : user[i] # <<>>

\* a setting with two tokens, the second of them spelled like the last fixed flag
C14_Witness ==
    /\ config = <<"a", " ", "-">>
    /\ intellisenseProcess # None
    /\ procs[intellisenseProcess].alive
    /\ procs[intellisenseProcess].args = <<<<"a">>, <<"-">>, LogLevelFlag, BackendFlag, StdinFlag>>

----------------------------------------------------------------------------
(* Handle release *)

\* every process that was spawned has emitted close
AllExited == \A p \in DOMAIN procs : ~procs[p].alive

\* process p emits close in this step
CloseStep(p) == p \in DOMAIN procs /\ procs[p].alive /\ ~procs'[p].alive

\* C15: the close event of the process held in the slot empties the slot, with
\* either exit code; the slot is empty whenever every spawned process has
\* exited, and in a behaviour where from some point on every spawned process
\* has exited the slot is from some point on empty for good
C15_HandleRelease ==
    /\ [][\A p \in DOMAIN procs :
             CloseStep(p) /\ intellisenseProcess = p => intellisenseProcess' = None]_vars
    /\ [](AllExited => intellisenseProcess = None)
    /\ (<>[]AllExited) => <>[](intellisenseProcess = None)

\* the process of the last run was held, has exited, and nothing is pending
C15_Witness ==
    /\ procs # <<>>
    /\ AllExited
    /\ lastExec.ok
    /\ lastExec.proc = Len(procs)
    /\ timers = {}
    /\ intellisenseProcess = None

----------------------------------------------------------------------------
(* Aggregation *)

\* a step that is a stderr 'data' event
StderrStep == nData' = nData + 1 /\ logged' = logged

\* the diagnostic that record l of a chunk of process p becomes
Recorded(l, p) ==
    [severity |-> IF l.kind = "warning" THEN Warning ELSE Error,
     range |-> [startLine |-> l.line - 1, startCol |-> 0,
                endLine |-> l.line - 1, endCol |-> l.col - 1],
     message |-> l.msg, run |-> p]

\* the diagnostics of the records of output, emitted by process p, that resolve to
\* uri, in the order of their arrival
ArrivedFor(output, p, uri) ==
    LET sel == SelectSeq(output, LAMBDA l :
                   /\ Matches(l)
                   /\ getUri(l.path, procs[p].doc, files).ok
                   /\ getUri(l.path, procs[p].doc, files).uri = uri)
    IN  [i \in 1..Len(sel) |-> Recorded(sel[i], p)]

\* C16: a stderr chunk extends the sequence of every file identity by the
\* chunk's resolved records for that identity, at the end and in arrival order,
\* creating the sequence when it is absent; a record equal to a stored one is
\* stored again, and no other sequence changes
C16_AggregationOrder ==
    [][StderrStep =>
          \E p \in DOMAIN procs, output \in SysChunks :
              /\ procs[p].alive
              /\ \A uri \in Uris :
                     /\ DiagColGet(diagCol', uri) =
                            DiagColGet(diagCol, uri) \o ArrivedFor(output, p, uri)
                     /\ uri \in DOMAIN diagCol' <=>
                            (uri \in DOMAIN diagCol \/ ArrivedFor(output, p, uri) # <<>>)
              /\ DOMAIN diagCol' \subseteq Uris]_vars

\* two chunks of one process: every sequence holds the same record twice
C16_Witness ==
    /\ DOMAIN diagCol = {DocA, AbsInc}
    /\ \A uri \in DOMAIN diagCol :
           Len(diagCol[uri]) = 2 /\ diagCol[uri][1] = diagCol[uri][2]

----------------------------------------------------------------------------
(* The writers of the collection *)

\* a step that is a stdout 'data' event
StdoutStep == nData' = nData + 1 /\ logged' # logged

\* a step in which document doc is closed
DocCloseStep(doc) == doc \notin closedSince /\ doc \in closedSince'

\* every sequence of col is a prefix of the sequence col2 has for the same uri
Extends(col2, col) ==
    /\ DOMAIN col \subseteq DOMAIN col2
    /\ \A uri \in DOMAIN col :
           /\ Len(col[uri]) <= Len(col2[uri])
           /\ SubSeq(col2[uri], 1, Len(col[uri])) = col[uri]

\* C17: a stdout chunk and a close event, with either exit code, leave the
\* collection as it is; the collection changes only when a run starts (it is
\* emptied), when a stderr chunk arrives (sequences are extended) and when a
\* document is closed (its entry is deleted)
C17_OnlyStderrFills ==
    [][/\ StdoutStep => diagCol' = diagCol
       /\ (\E p \in DOMAIN procs : CloseStep(p)) => diagCol' = diagCol
       /\ diagCol' # diagCol =>
              \/ ExecStep /\ diagCol' = EmptyCol
              \/ StderrStep /\ Extends(diagCol', diagCol)
              \/ \E doc \in Docs :
                     DocCloseStep(doc) /\ diagCol' = DiagColDelete(diagCol, doc)]_vars

\* diagnostics of a stderr chunk are still stored after a stdout chunk and the
\* close event of the process
C17_Witness ==
    /\ procs # <<>>
    /\ AllExited
    /\ nData = 2
    /\ logged["info"] = 2
    /\ DOMAIN diagCol = {lastExec.doc, AbsInc}
    /\ \A uri \in DOMAIN diagCol : Len(diagCol[uri]) = 1

----------------------------------------------------------------------------
(* The slot and the newest process *)

\* C18: a slot that is not empty holds the process that was spawned last, never a
\* process of an earlier run
C18_SlotIsNewest == intellisenseProcess # None => intellisenseProcess = Len(procs)

\* the process of an earlier run has not exited, and the slot holds the newer one
C18_Witness ==
    /\ Len(procs) >= 2
    /\ procs[1].alive
    /\ intellisenseProcess = Len(procs)

----------------------------------------------------------------------------
(* Attribution of the records for the path `-` *)

\* the positions of the entries of uri that this step adds
Added(uri) == (Len(DiagColGet(diagCol, uri)) + 1)..Len(DiagColGet(diagCol', uri))

\* C19: a record with the path `-` is stored under the document of the run that
\* spawned the process emitting it, also when a run for another document has
\* started since; only records with the path `-` are stored under a document
\* here, and each chunk has one
C19_DashIsOwnDocument ==
    [][StderrStep =>
          /\ \A uri \in Docs : \A i \in Added(uri) :
                 procs[diagCol'[uri][i].run].doc = uri
          /\ \E uri \in Docs : Added(uri) # {}]_vars

\* the superseded process of the run for DocA emits its chunk after the run for
\* DocB has started
C19_Witness ==
    /\ Len(procs) = 2
    /\ procs[1].alive
    /\ procs[1].doc = DocA
    /\ lastExec.doc = DocB
    /\ lastExec.proc = 2
    /\ DocA \in DOMAIN diagCol
    /\ diagCol[DocA][1].run = 1
    /\ DocB \notin DOMAIN diagCol

----------------------------------------------------------------------------
(* The match cursor of errMsgRegex *)

\* the entries of uri that this step adds
AddedSeq(uri) ==
    SubSeq(DiagColGet(diagCol', uri), Len(DiagColGet(diagCol, uri)) + 1,
           Len(DiagColGet(diagCol', uri)))

\* C20: the cursor of errMsgRegex is 0 whenever no call of
\* processIntellisenseErrors is running, so at the entry and at the exit of every
\* call, and what a call adds is what its own chunk and document give, whatever
\* chunks were parsed before it
C20_StatelessParsing ==
    /\ [](lastIndex = 0)
    /\ [][StderrStep =>
            \E p \in DOMAIN procs, output \in SysChunks :
                /\ procs[p].alive
                /\ \A uri \in Uris : AddedSeq(uri) = ArrivedFor(output, p, uri)]_vars

\* a chunk of the newer process, then one of the superseded process, both parsed
\* in full
C20_Witness ==
    /\ Len(procs) = 2
    /\ nData = 2
    /\ lastIndex = 0
    /\ Len(DiagColGet(diagCol, AbsInc)) = 2
    /\ diagCol[AbsInc][1].run = 2
    /\ diagCol[AbsInc][2].run = 1

====
